---- MODULE Spec2Model ----
(***************************************************************************)
(* A model of src/main.py: the Todoist <-> Notion synchronisation function *)
(* sync_all and the helpers it calls.  The two vendor services and the     *)
(* Firestore collections are the world state; one invocation of sync_all   *)
(* is a sequential process whose position is pc.  Every HTTP request is    *)
(* recorded in log, and succeeds or fails by a nondeterministic choice.    *)
(***************************************************************************)
EXTENDS Integers, Sequences, FiniteSets, TLC

VARIABLES
    \* ---- the world: the two vendor services and Firestore
    tdProjects,        \* Todoist projects, in the order GET /projects returns them
    nProjects,         \* pages of the Notion projects database, in query order
    nCategories,       \* titles of the pages of the Notion categories database
    tdTasks,           \* Todoist tasks (active and completed)
    nTasks,            \* pages of the Notion tasks database
    task_mappings,     \* Firestore collection task_mappings: set of documents
    sync_history,      \* Firestore collection sync_history: sequence of records
    \* ---- the locals of one invocation of sync_all
    pc,                \* position in sync_all
    i,                 \* index of the next item of the loop pc names
    todoist_projects,  \* snapshot fetched at line 381
    notion_projects,   \* snapshot fetched at line 382
    category_map,      \* line 383: set of category titles (id is CategoryId)
    notion_projects_refreshed,  \* snapshot fetched at line 400
    project_map,       \* line 414: Todoist project id -> Notion page id
    project_map_reverse,
    todoist_tasks,     \* snapshot fetched at line 435
    notion_tasks,      \* snapshot fetched at line 436
    completed_tasks,   \* snapshot fetched at line 461
    results,           \* the results record of line 372
    \* ---- history
    log,               \* every request issued, in order, with its outcome
    faultPhases,       \* the positions of sync_all at which a request may fail
    \* ---- a second invocation of the HTTP function, overlapping this one
    other              \* its call of create_or_update_notion_task

vars == <<tdProjects, nProjects, nCategories, tdTasks, nTasks, task_mappings,
          sync_history, pc, i, todoist_projects, notion_projects, category_map,
          notion_projects_refreshed, project_map, project_map_reverse,
          todoist_tasks, notion_tasks, completed_tasks, results, log,
          faultPhases, other>>

world == <<tdProjects, nProjects, nCategories, tdTasks, nTasks, task_mappings>>

\* ------------------------------------------------------------------ bounds
MaxTdProjects == 2     \* Todoist projects in the initial state
MaxNotionPages == 1    \* Notion project pages in the initial state
MaxTdTasks == 1        \* Todoist tasks in the initial state
MaxNotionTasks == 1    \* Notion task pages in the initial state
MaxPasses == 2         \* invocations of sync_all, one after the other
MaxEdits == 1          \* edits made by the user between two passes

\* ------------------------------------------------------------------ values
Names == {"A", "B"}
NoTitle == ""          \* a page whose Name title list is empty
None == 0              \* Python's None for ids (ids are positive)

CategoryId(title) == IF title = "A" THEN 51 ELSE 52

SeqToSet(s) == {s[k] : k \in 1..Len(s)}

\* The first index of s whose element satisfies P, or 0: Python's
\* next((x for x in s if P(x)), None) and the for/break searches.
FirstIndex(s, P(_)) ==
    IF \E k \in 1..Len(s) : P(s[k])
    THEN CHOOSE k \in 1..Len(s) : P(s[k]) /\ \A j \in 1..(k - 1) : ~P(s[j])
    ELSE 0

\* ------------------------------------------------------------------ requests
\* Variant of Request: the caller goes on before the response is there.
\* C9 fails under it.
RequestNotAwaited(l, svc, op, kind, arg, phase, ok) ==
    Append(l, [svc |-> svc, op |-> op, kind |-> kind, arg |-> arg,
               phase |-> phase, ok |-> ok,
               sent |-> 2 * Len(l), answered |-> 2 * Len(l) + 3])

\* requests.get/post/patch block until the response is there: the request
\* is sent at one tick and answered at the next, before the caller goes on.
\* ok says whether the request succeeded.
Request(l, svc, op, kind, arg, phase, ok) ==
    Append(l, [svc |-> svc, op |-> op, kind |-> kind, arg |-> arg,
               phase |-> phase, ok |-> ok,
               sent |-> 2 * Len(l), answered |-> 2 * Len(l) + 1])

\* ------------------------------------------------------------------ results
NewResults ==
    [projects_created |-> 0, projects_updated |-> 0, projects_errors |-> <<>>,
     tasks_created |-> 0, tasks_updated |-> 0, status_synced |-> 0,
     tasks_errors |-> <<>>, error |-> FALSE]

\* Line 481.
WithError(r) == [r EXCEPT !.error = TRUE]

\* Variant of RecordProjectError: the handler drops the error.  C5 fails
\* under it.
RecordProjectErrorSilently(r, dir, name) == r

\* Lines 396 and 410: the handler of one project's exception.
RecordProjectError(r, dir, name) ==
    [r EXCEPT !.projects_errors = Append(@, [dir |-> dir, name |-> name])]

\* Lines 458, 466 and 475: the handler of one task's exception.
RecordTaskError(r, dir, name) ==
    [r EXCEPT !.tasks_errors = Append(@, [dir |-> dir, name |-> name])]

\* ------------------------------------------------------------------ projects
\* Variant of ExistingPageId: only pages synced from Todoist are matched.
\* C1 fails under it.
ExistingPageIdBySource(existing_projects, name) ==
    LET k == FirstIndex(existing_projects,
                        LAMBDA page : page.source = "Todoist" /\ page.name = name)
    IN  IF k = 0 THEN None ELSE existing_projects[k].id

\* Variant of ExistingPageId: the search reads the database as it is now,
\* not the snapshot fetched at the start.  C6 fails under it.
ExistingPageIdLive(existing_projects, name) ==
    LET k == FirstIndex(nProjects,
                        LAMBDA page : page.name # NoTitle /\ page.name = name)
    IN  IF k = 0 THEN None ELSE nProjects[k].id

\* Lines 127-135: the id of the first snapshot page whose Name title is
\* non-empty and equals the project's name, or None.
ExistingPageId(existing_projects, name) ==
    LET k == FirstIndex(existing_projects,
                        LAMBDA page : page.name # NoTitle /\ page.name = name)
    IN  IF k = 0 THEN None ELSE existing_projects[k].id

\* Lines 137-152: the properties payload built for a Todoist project.
ProjectProperties(project_data, all_todoist_projects, cmap) ==
    LET pk == FirstIndex(all_todoist_projects,
                         LAMBDA p : p.id = project_data.parent_id)
        parent_name == IF pk = 0 THEN NoTitle ELSE all_todoist_projects[pk].name
        has_category == /\ project_data.parent_id # None
                        /\ parent_name # NoTitle
                        /\ parent_name \in cmap
    IN  [name |-> project_data.name,
         source |-> "Todoist",
         status |-> IF project_data.is_archived THEN "Done" ELSE "In Progress",
         todoist_id |-> project_data.id,
         todoist_url |-> project_data.id,
         has_category |-> has_category,
         category |-> IF has_category THEN CategoryId(parent_name) ELSE None]

\* PATCH /v1/pages/{page_id}: the properties sent replace the page's; a
\* property that is not sent (Category) keeps its value.
PatchProjectPage(pages, page_id, props) ==
    [k \in 1..Len(pages) |->
        IF pages[k].id = page_id
        THEN [pages[k] EXCEPT !.name = props.name,
                              !.source = props.source,
                              !.status = props.status,
                              !.todoist_id = props.todoist_id,
                              !.todoist_url = props.todoist_url,
                              !.category = IF props.has_category
                                           THEN props.category ELSE @]
        ELSE pages[k]]

\* POST /v1/pages: a new page with a fresh id.
CreateProjectPage(pages, props) ==
    Append(pages, [id |-> Len(pages) + 1,
                   name |-> props.name,
                   source |-> props.source,
                   status |-> props.status,
                   todoist_id |-> props.todoist_id,
                   todoist_url |-> props.todoist_url,
                   category |-> props.category])

\* Line 391: any(page["id"] == result["id"] for page in notion_projects).
InSnapshot(snapshot, result_id) == \E k \in 1..Len(snapshot) : snapshot[k].id = result_id

\* Variant of CountProject: every success is counted as created.  C8 fails
\* under it.
CountProjectAsCreated(r, snapshot, result_id) ==
    [r EXCEPT !.projects_created = @ + 1]

\* Lines 392-394: the bucket a successful project is counted in.
CountProject(r, snapshot, result_id) ==
    IF InSnapshot(snapshot, result_id)
    THEN [r EXCEPT !.projects_updated = @ + 1]
    ELSE [r EXCEPT !.projects_created = @ + 1]

\* Lines 166-167.
IsArchivedStatus(status) == status \in {"Done", "Canceled"}

\* Line 403: project["properties"].get("Source", {}).get("select", {})
\* .get("name").  A page whose Source select is empty carries
\* {"select": null}: the second get returns None and the third raises
\* AttributeError.
SourceRaises(page) == page.source = "NullSelect"

\* Line 404: the pages the Notion -> Todoist loop passes on.
NotFromTodoist(page) == page.source = "NoSource" \/ page.source # "Todoist"

\* Lines 412-430: the last page carrying a Todoist id wins its key.
\* Line 425: the last segment of the Todoist URL written at line 144, whose
\* text after the last "/" is ")" followed by the id: never a Todoist id.
UrlLastSegment(url) == 0 - url

MapKey(np) == IF np.todoist_id # None THEN np.todoist_id
              ELSE UrlLastSegment(np.todoist_url)

HasMapKey(np) == np.todoist_id # None \/ np.todoist_url # None

BuildProjectMap(pages) ==
    LET keyed == {k \in 1..Len(pages) : HasMapKey(pages[k])}
        keys == {MapKey(pages[k]) : k \in keyed}
        last(key) == CHOOSE k \in keyed :
                        /\ MapKey(pages[k]) = key
                        /\ \A j \in keyed : MapKey(pages[j]) = key => j <= k
    IN  [key \in keys |-> pages[last(key)].id]

BuildProjectMapReverse(pages) ==
    LET keyed == {k \in 1..Len(pages) : HasMapKey(pages[k])}
        ids == {pages[k].id : k \in keyed}
        last(id) == CHOOSE k \in keyed :
                        /\ pages[k].id = id
                        /\ \A j \in keyed : pages[j].id = id => j <= k
    IN  [id \in ids |-> MapKey(pages[last(id)])]

\* ------------------------------------------------------------------ sync_all
\* The second invocation has not called create_or_update_notion_task.
NoCall == [pc |-> "idle", task |-> None, page_id |-> None, result_id |-> None]

locals == <<todoist_projects, notion_projects, category_map,
            notion_projects_refreshed, project_map, project_map_reverse,
            todoist_tasks, notion_tasks, completed_tasks>>

\* Variant of Critical: no outer handler, the exception leaves sync_all.
\* C13 fails under it.
CriticalRaises(l) ==
    /\ pc' = "done"
    /\ results' = WithError(results)
    /\ log' = l

\* Lines 479-481: an exception that reaches the outer handler ends the pass.
Critical(l) ==
    /\ pc' = "history"
    /\ results' = WithError(results)
    /\ log' = l

\* The positions of sync_all, by the side they work on.
ProjectPhases == {"start", "projects_t2n", "projects_n2t"}
TaskPhases == {"fetch_tasks", "status", "tasks_t2n", "completed_t2n", "tasks_n2t"}

\* The outcomes a request can have here.
Outcomes == IF pc \in faultPhases THEN BOOLEAN ELSE {TRUE}

\* Variant of GetTodoistProjectsRaises: the failure is swallowed, as
\* get_todoist_completed_tasks does.  C4 fails under it.
GetTodoistProjectsSwallows(ok) == FALSE

\* Lines 40-44: get_todoist_projects raises on a failed response
\* (raise_for_status); nothing between it and sync_all's outer except
\* catches the exception.
GetTodoistProjectsRaises(ok) == ~ok

\* Lines 379-384: the initial fetch.  get_notion_categories swallows its own
\* failure and returns {} (lines 117-119).
FetchInitial ==
    /\ pc = "start"
    /\ \E okT, okN, okC \in Outcomes :
        LET l1 == Request(log, "todoist", "get_projects", "read", None, pc, okT)
            l2 == Request(l1, "notion", "query_projects", "read", None, pc, okN)
            l3 == Request(l2, "notion", "query_categories", "read", None, pc, okC)
        IN  IF GetTodoistProjectsRaises(okT)
            THEN /\ okN /\ okC
                 /\ Critical(l1)
                 /\ UNCHANGED <<i, locals>>
            ELSE IF ~okN
            THEN /\ okC
                 /\ Critical(l2)
                 /\ UNCHANGED <<i, locals>>
            ELSE /\ todoist_projects' = IF okT THEN tdProjects ELSE <<>>
                 /\ notion_projects' = nProjects
                 /\ category_map' = IF okC THEN nCategories ELSE {}
                 /\ log' = l3
                 /\ pc' = "projects_t2n"
                 /\ i' = 1
                 /\ UNCHANGED <<results, notion_projects_refreshed, project_map,
                                project_map_reverse, todoist_tasks, notion_tasks,
                                completed_tasks>>
    /\ UNCHANGED <<world, sync_history, faultPhases, other>>

\* Lines 388-396 with create_or_update_notion_project (lines 121-160): one
\* iteration of the Todoist -> Notion project loop.
SyncProjectToNotion ==
    /\ pc = "projects_t2n"
    /\ i <= Len(todoist_projects)
    /\ \E ok \in Outcomes :
        LET project == todoist_projects[i]
            page_id == ExistingPageId(notion_projects, project.name)
            properties == ProjectProperties(project, todoist_projects, category_map)
            op == IF page_id # None THEN "patch_page" ELSE "create_page"
            arg == [page_id |-> page_id, properties |-> properties]
            result_id == IF page_id # None THEN page_id ELSE Len(nProjects) + 1
        IN  /\ log' = Request(log, "notion", op, "project", arg, pc, ok)
            /\ nProjects' = IF ~ok THEN nProjects
                            ELSE IF page_id # None
                            THEN PatchProjectPage(nProjects, page_id, properties)
                            ELSE CreateProjectPage(nProjects, properties)
            /\ results' = IF ok
                          THEN CountProject(results, notion_projects, result_id)
                          ELSE RecordProjectError(results, "T->N", project.name)
    /\ i' = i + 1
    /\ UNCHANGED <<pc, tdProjects, nCategories, tdTasks, nTasks, task_mappings,
                   sync_history, faultPhases, other, locals>>

\* Line 400: the second query of the Notion projects database.
RefreshNotionProjects ==
    /\ pc = "projects_t2n"
    /\ i > Len(todoist_projects)
    /\ \E ok \in Outcomes :
        LET l1 == Request(log, "notion", "query_projects", "read", None,
                          "projects_n2t", ok)
        IN  IF ~ok
            THEN /\ Critical(l1)
                 /\ UNCHANGED <<i, locals>>
            ELSE /\ notion_projects_refreshed' = nProjects
                 /\ log' = l1
                 /\ pc' = "projects_n2t"
                 /\ i' = 1
                 /\ UNCHANGED <<results, todoist_projects, notion_projects,
                                category_map, project_map, project_map_reverse,
                                todoist_tasks, notion_tasks, completed_tasks>>
    /\ UNCHANGED <<world, sync_history, faultPhases, other>>

\* POST /projects/{id}/archive or /unarchive.
SetArchived(projects, id, archived) ==
    [k \in 1..Len(projects) |->
        IF projects[k].id = id THEN [projects[k] EXCEPT !.is_archived = archived]
        ELSE projects[k]]

\* Lines 401-410 with create_or_update_todoist_project (lines 162-183): one
\* iteration of the Notion -> Todoist project loop.
SyncProjectToTodoist ==
    /\ pc = "projects_n2t"
    /\ i <= Len(notion_projects_refreshed)
    /\ LET project == notion_projects_refreshed[i]
           is_archived == IsArchivedStatus(project.status)
           ek == FirstIndex(todoist_projects, LAMBDA p : p.name = project.name)
           new_id == Len(tdProjects) + 1
           new_project == [id |-> new_id, name |-> project.name,
                           parent_id |-> None, is_archived |-> FALSE]
       IN  IF SourceRaises(project)
           THEN \* line 403 is outside the inner try: the outer handler takes
                \* the exception
                /\ Critical(log)
                /\ UNCHANGED <<i, tdProjects>>
           ELSE IF ~NotFromTodoist(project)
           THEN \* line 404: skipped
                /\ i' = i + 1
                /\ UNCHANGED <<pc, results, log, tdProjects>>
           ELSE IF project.name = NoTitle
           THEN \* line 165 raises IndexError; so does line 409 in the handler,
                \* outside the inner try: the outer handler takes it
                /\ Critical(log)
                /\ UNCHANGED <<i, tdProjects>>
           ELSE IF ek # 0
           THEN \* lines 171-175: the archive request's outcome is not checked
                LET existing_project == todoist_projects[ek]
                    endpoint == IF is_archived THEN "archive" ELSE "unarchive"
                IN  /\ IF existing_project.is_archived # is_archived
                       THEN \E ok \in Outcomes :
                              /\ log' = Request(log, "todoist", endpoint, "project",
                                                existing_project.id, pc, ok)
                              /\ tdProjects' =
                                    IF ok THEN SetArchived(tdProjects,
                                                   existing_project.id, is_archived)
                                    ELSE tdProjects
                       ELSE UNCHANGED <<log, tdProjects>>
                    /\ results' = [results EXCEPT !.projects_updated = @ + 1]
                    /\ i' = i + 1
                    /\ pc' = pc
           ELSE \* lines 176-183: line 179 raises when the create request
                \* fails; the archive request's outcome is not checked
                \E ok, okA \in Outcomes :
                  LET l1 == Request(log, "todoist", "create_project", "project",
                                    project.name, pc, ok)
                      l2 == Request(l1, "todoist", "archive", "project", new_id,
                                    pc, okA)
                  IN  /\ i' = i + 1
                      /\ pc' = pc
                      /\ ~(ok /\ is_archived) => okA
                      /\ log' = IF ok /\ is_archived THEN l2 ELSE l1
                      /\ tdProjects' =
                            IF ~ok THEN tdProjects
                            ELSE Append(tdProjects,
                                   [new_project EXCEPT
                                       !.is_archived = (is_archived /\ okA)])
                      /\ results' =
                            IF ok THEN [results EXCEPT !.projects_updated = @ + 1]
                            ELSE RecordProjectError(results, "N->T", project.name)
    /\ UNCHANGED <<nProjects, nCategories, tdTasks, nTasks, task_mappings,
                   sync_history, faultPhases, other, locals>>

\* Lines 412-431: the third query and the project ID maps.
CreateProjectMaps ==
    /\ pc = "projects_n2t"
    /\ i > Len(notion_projects_refreshed)
    /\ \E ok \in Outcomes :
        LET l1 == Request(log, "notion", "query_projects", "read", None, "maps", ok)
        IN  IF ~ok
            THEN /\ Critical(l1)
                 /\ UNCHANGED <<i, locals>>
            ELSE /\ project_map' = BuildProjectMap(nProjects)
                 /\ project_map_reverse' = BuildProjectMapReverse(nProjects)
                 /\ log' = l1
                 /\ pc' = "fetch_tasks"
                 /\ UNCHANGED <<i, results, todoist_projects, notion_projects,
                                category_map, notion_projects_refreshed,
                                todoist_tasks, notion_tasks, completed_tasks>>
    /\ UNCHANGED <<world, sync_history, faultPhases, other>>

\* ------------------------------------------------------------------ tasks
\* GET /rest/v2/tasks returns the active tasks (lines 46-50).
ActiveTasks(tasks) == SelectSeq(tasks, LAMBDA t : ~t.is_completed)

\* The items of the completed-tasks endpoint (lines 52-58).
CompletedItems(tasks) == SelectSeq(tasks, LAMBDA t : t.is_completed)

\* Line 462: completed_tasks[:50].
CompletedLimit == 50

Take(s, n) == IF Len(s) <= n THEN s ELSE SubSeq(s, 1, n)

\* Variant of SetDoc: the write is lost.  C11 fails under it.
SetDocLost(mappings, doc) == mappings

\* Firestore document(key).set(...): one document per key.
SetDoc(mappings, doc) == {d \in mappings : d.key # doc.key} \cup {doc}

\* Lines 191-193: the notion_id of the document keyed by the Todoist id.
MappedPageId(mappings, todoist_id) ==
    IF \E d \in mappings : d.key = todoist_id
    THEN (CHOOSE d \in mappings : d.key = todoist_id).notion_id
    ELSE None

\* Lines 246-248: where('notion_id', '==', notion_id).limit(1): the first
\* document in key order, or None.
MappedTodoistId(mappings, notion_id) ==
    LET docs == {d \in mappings : d.notion_id = notion_id}
    IN  IF docs = {} THEN None
        ELSE (CHOOSE d \in docs : \A e \in docs : d.key <= e.key).todoist_id

\* Lines 245-254: the mapping first, then the page's Todoist ID property.
KnownTodoistId(mappings, notion_task) ==
    LET mapped == MappedTodoistId(mappings, notion_task.id)
    IN  IF mapped # None THEN mapped ELSE notion_task.todoist_id

TaskIndex(tasks, id) == FirstIndex(tasks, LAMBDA t : t.id = id)

\* Lines 195-200: the properties payload built for a Todoist task.
TaskProperties(task_data, is_completed) ==
    [name |-> task_data.content,
     done |-> (is_completed \/ task_data.is_completed),
     todoist_id |-> task_data.id]

PatchTaskPage(pages, page_id, props) ==
    [k \in 1..Len(pages) |->
        IF pages[k].id = page_id
        THEN [pages[k] EXCEPT !.name = props.name, !.done = props.done,
                              !.todoist_id = props.todoist_id]
        ELSE pages[k]]

CreateTaskPage(pages, props) ==
    Append(pages, [id |-> Len(pages) + 1, name |-> props.name,
                   done |-> props.done, todoist_id |-> props.todoist_id])

\* PATCH {"Done": {"checkbox": True}} (lines 358-360).
CheckDone(pages, page_id) ==
    [k \in 1..Len(pages) |->
        IF pages[k].id = page_id THEN [pages[k] EXCEPT !.done = TRUE] ELSE pages[k]]

\* POST /tasks/{id} with the new content.
SetContent(tasks, id, content) ==
    [k \in 1..Len(tasks) |->
        IF tasks[k].id = id THEN [tasks[k] EXCEPT !.content = content] ELSE tasks[k]]

\* POST /tasks/{id}/close and /reopen.
SetCompleted(tasks, id, completed) ==
    [k \in 1..Len(tasks) |->
        IF tasks[k].id = id THEN [tasks[k] EXCEPT !.is_completed = completed]
        ELSE tasks[k]]

\* What one call of create_or_update_todoist_task leaves behind: the Todoist
\* tasks, the mappings, the requests issued, whether it raised, whether every
\* request succeeded.
Outcome(td, maps, l, raised, ok) ==
    [td |-> td, maps |-> maps, log |-> l, raised |-> raised, ok |-> ok]

\* The id Todoist gives a new task: one that no task has or had.  The ids
\* of the initial state, also those of tasks since deleted, are at most
\* MaxTdTasks.
NextTaskId(td, maps) ==
    LET used == {MaxTdTasks} \cup {td[k].id : k \in 1..Len(td)}
                             \cup {d.key : d \in maps}
    IN  1 + CHOOSE m \in used : \A u \in used : u <= m

\* Lines 301-319: create the Todoist task, save the mapping, close the task
\* if the Notion page is done.  ok: the call's requests so far succeeded.
CreateTodoistTask(notion_task, td, maps, l, phase, ok) ==
    LET new_id == NextTaskId(td, maps)
        create(o) == Request(l, "todoist", "create_task", "task",
                             notion_task.id, phase, o)
        close(o) == Request(create(TRUE), "todoist", "close_task", "task",
                            new_id, phase, o)
        created == Append(td, [id |-> new_id, content |-> notion_task.name,
                               is_completed |-> FALSE])
        saved == SetDoc(maps, [key |-> new_id, todoist_id |-> new_id,
                               notion_id |-> notion_task.id])
    IN  {Outcome(td, maps, create(FALSE), TRUE, FALSE)}
        \cup IF notion_task.done
             THEN {Outcome(SetCompleted(created, new_id, TRUE), saved,
                           close(TRUE), FALSE, ok),
                   Outcome(created, saved, close(FALSE), TRUE, FALSE)}
             ELSE {Outcome(created, saved, create(TRUE), FALSE, ok)}

\* Lines 271-299: the task is looked up; answered 200 it is updated and its
\* completion state aligned.  Any other status, and any HTTPError raised in
\* the block, leads on to lines 301-319; another exception leaves the call.
\* A task that is not in Todoist is answered 404, which is no failure.
UpdateTodoistTask(notion_task, todoist_id, td, maps, l, phase) ==
    LET k == TaskIndex(td, todoist_id)
        todoist_is_completed == td[k].is_completed
        check(o) == Request(l, "todoist", "get_task", "read", todoist_id, phase, o)
        update(o) == Request(check(TRUE), "todoist", "update_task", "task",
                             todoist_id, phase, o)
        updated == SetContent(td, todoist_id, notion_task.name)
        endpoint == IF notion_task.done /\ ~todoist_is_completed THEN "close_task"
                    ELSE IF ~notion_task.done /\ todoist_is_completed
                    THEN "reopen_task"
                    ELSE "none"
        toggle(o) == Request(update(TRUE), "todoist", endpoint, "task",
                             todoist_id, phase, o)
        toggled == SetCompleted(updated, todoist_id, notion_task.done)
    IN  IF k = 0
        THEN {Outcome(td, maps, check(FALSE), TRUE, FALSE)}
             \cup CreateTodoistTask(notion_task, td, maps, check(TRUE), phase, TRUE)
        ELSE {Outcome(td, maps, check(FALSE), TRUE, FALSE)}
             \cup CreateTodoistTask(notion_task, td, maps, check(FALSE), phase, FALSE)
             \cup {Outcome(td, maps, update(FALSE), TRUE, FALSE)}
             \cup CreateTodoistTask(notion_task, td, maps, update(FALSE), phase, FALSE)
             \cup IF endpoint = "none"
                  THEN {Outcome(updated, maps, update(TRUE), FALSE, TRUE)}
                  ELSE {Outcome(toggled, maps, toggle(TRUE), FALSE, TRUE),
                        Outcome(updated, maps, toggle(FALSE), TRUE, FALSE)}
                       \cup CreateTodoistTask(notion_task, updated, maps,
                                              toggle(FALSE), phase, FALSE)

\* Lines 238-319.
CreateOrUpdateTodoistTask(notion_task, td, maps, l, phase) ==
    LET todoist_id == KnownTodoistId(maps, notion_task)
    IN  IF todoist_id # None
        THEN UpdateTodoistTask(notion_task, todoist_id, td, maps, l, phase)
        ELSE CreateTodoistTask(notion_task, td, maps, l, phase, TRUE)

RECURSIVE SortedSeq(_)
SortedSeq(S) ==
    IF S = {} THEN <<>>
    ELSE LET m == CHOOSE x \in S : \A y \in S : x <= y
         IN  <<m>> \o SortedSeq(S \ {m})

\* One request per element of args, in order; those in oks succeed.
RECURSIVE RequestEach(_, _, _, _, _, _, _)
RequestEach(l, svc, op, kind, args, phase, oks) ==
    IF args = <<>> THEN l
    ELSE RequestEach(Request(l, svc, op, kind, Head(args), phase, Head(args) \in oks),
                     svc, op, kind, Tail(args), phase, oks)

\* Lines 434-439: tasks, Notion task pages and labels are fetched.
FetchTasks ==
    /\ pc = "fetch_tasks"
    /\ \E okT, okN, okL \in Outcomes :
        LET l1 == Request(log, "todoist", "get_tasks", "read", None, pc, okT)
            l2 == Request(l1, "notion", "query_tasks", "read", None, pc, okN)
            l3 == Request(l2, "todoist", "get_labels", "read", None, pc, okL)
        IN  IF ~okT
            THEN /\ okN /\ okL
                 /\ Critical(l1)
                 /\ UNCHANGED <<i, locals>>
            ELSE IF ~okN
            THEN /\ okL
                 /\ Critical(l2)
                 /\ UNCHANGED <<i, locals>>
            ELSE IF ~okL
            THEN /\ Critical(l3)
                 /\ UNCHANGED <<i, locals>>
            ELSE /\ todoist_tasks' = ActiveTasks(tdTasks)
                 /\ notion_tasks' = nTasks
                 /\ log' = l3
                 /\ pc' = "status"
                 /\ UNCHANGED <<i, results, todoist_projects, notion_projects,
                                category_map, notion_projects_refreshed,
                                project_map, project_map_reverse, completed_tasks>>
    /\ UNCHANGED <<world, sync_history, faultPhases, other>>

\* Lines 336-355: the Notion pages the status pass patches: mapped, found in
\* the snapshot, completed in Todoist and not done in Notion.
StatusMismatches(mappings, completed, snapshot) ==
    {d.notion_id : d \in {e \in mappings :
        /\ e.todoist_id # None
        /\ e.notion_id # None
        /\ \E k \in 1..Len(completed) : completed[k].id = e.todoist_id
        /\ \E k \in 1..Len(snapshot) :
              snapshot[k].id = e.notion_id /\ ~snapshot[k].done}}

RECURSIVE CheckDoneAll(_, _)
CheckDoneAll(pages, ids) ==
    IF ids = {} THEN pages
    ELSE LET id == CHOOSE x \in ids : TRUE
         IN  CheckDoneAll(CheckDone(pages, id), ids \ {id})

\* Lines 441-444 with sync_task_completion_status (lines 321-367).  The
\* completed-tasks fetch swallows its failure (lines 59-60); the PATCH
\* responses are not checked, and every mismatch is counted.
SyncTaskCompletionStatus ==
    /\ pc = "status"
    /\ \E okC \in Outcomes :
        LET completed == IF okC THEN CompletedItems(tdTasks) ELSE <<>>
            l1 == Request(log, "todoist", "get_completed", "read", None, pc, okC)
            todo == StatusMismatches(task_mappings, completed, notion_tasks)
        IN  \E patched \in SUBSET todo :
              /\ patched = todo \/ pc \in faultPhases
              /\ log' = RequestEach(l1, "notion", "patch_page", "task",
                                    SortedSeq(todo), pc, patched)
              /\ nTasks' = CheckDoneAll(nTasks, patched)
              /\ results' = [results EXCEPT !.status_synced = Cardinality(todo)]
    /\ pc' = "tasks_t2n"
    /\ i' = 1
    /\ UNCHANGED <<tdProjects, nProjects, nCategories, tdTasks, task_mappings,
                   sync_history, faultPhases, other, locals>>

\* create_or_update_notion_task (lines 185-236) for one Todoist task, and
\* the caller's handler; counted says whether lines 453-456 count it.  A
\* PATCH of a page that is not in the database fails.
SyncTaskPage(task, is_completed, counted, dir) ==
    LET page_id == MappedPageId(task_mappings, task.id)
        properties == TaskProperties(task, is_completed)
        op == IF page_id # None THEN "patch_page" ELSE "create_page"
        arg == [page_id |-> page_id, properties |-> properties]
        new_id == Len(nTasks) + 1
        result_id == IF page_id # None THEN page_id ELSE new_id
        existed == \E k \in 1..Len(notion_tasks) : notion_tasks[k].id = result_id
        page_exists == \E k \in 1..Len(nTasks) : nTasks[k].id = page_id
    IN  \E ok \in Outcomes \cup {page_id = None \/ page_exists} :
          /\ ok => (page_id = None \/ page_exists)
          /\ log' = Request(log, "notion", op, "task", arg, pc, ok)
          /\ nTasks' = IF ~ok THEN nTasks
                       ELSE IF page_id # None
                       THEN PatchTaskPage(nTasks, page_id, properties)
                       ELSE CreateTaskPage(nTasks, properties)
          /\ task_mappings' =
                IF ok /\ page_id = None
                THEN SetDoc(task_mappings, [key |-> task.id,
                                todoist_id |-> task.id, notion_id |-> new_id])
                ELSE task_mappings
          /\ results' = IF ~ok THEN RecordTaskError(results, dir, task.content)
                        ELSE IF ~counted THEN results
                        ELSE IF existed
                        THEN [results EXCEPT !.tasks_updated = @ + 1]
                        ELSE [results EXCEPT !.tasks_created = @ + 1]

\* Lines 450-458: one iteration of the Todoist -> Notion task loop.
SyncTaskToNotion ==
    /\ pc = "tasks_t2n"
    /\ i <= Len(todoist_tasks)
    /\ SyncTaskPage(todoist_tasks[i], FALSE, TRUE, "T->N")
    /\ i' = i + 1
    /\ UNCHANGED <<pc, tdProjects, nProjects, nCategories, tdTasks, sync_history,
                   faultPhases, other, locals>>

\* Line 461: the completed tasks are fetched again.
FetchCompletedTasks ==
    /\ pc = "tasks_t2n"
    /\ i > Len(todoist_tasks)
    /\ \E okC \in Outcomes :
          /\ completed_tasks' = IF okC
                                THEN Take(CompletedItems(tdTasks), CompletedLimit)
                                ELSE <<>>
          /\ log' = Request(log, "todoist", "get_completed", "read", None,
                            "completed_t2n", okC)
    /\ pc' = "completed_t2n"
    /\ i' = 1
    /\ UNCHANGED <<world, sync_history, faultPhases, other, results, todoist_projects,
                   notion_projects, category_map, notion_projects_refreshed,
                   project_map, project_map_reverse, todoist_tasks, notion_tasks>>

\* Lines 462-466: one iteration of the completed-task loop.
SyncCompletedTaskToNotion ==
    /\ pc = "completed_t2n"
    /\ i <= Len(completed_tasks)
    /\ SyncTaskPage(completed_tasks[i], TRUE, FALSE, "T->N Completed")
    /\ i' = i + 1
    /\ UNCHANGED <<pc, tdProjects, nProjects, nCategories, tdTasks, sync_history,
                   faultPhases, other, locals>>

\* Line 469: the Notion -> Todoist task loop starts.
StartTasksToTodoist ==
    /\ pc = "completed_t2n"
    /\ i > Len(completed_tasks)
    /\ pc' = "tasks_n2t"
    /\ i' = 1
    /\ UNCHANGED <<world, sync_history, faultPhases, other, locals, results, log>>

\* Lines 469-475 with create_or_update_todoist_task (lines 238-319): one
\* iteration of the Notion -> Todoist task loop.
SyncTaskToTodoist ==
    /\ pc = "tasks_n2t"
    /\ i <= Len(notion_tasks)
    /\ LET task == notion_tasks[i]
       IN  IF task.name = NoTitle
           THEN \* line 242 raises IndexError; so does line 474 in the handler
                /\ Critical(log)
                /\ UNCHANGED <<i, tdTasks, task_mappings>>
           ELSE \E r \in CreateOrUpdateTodoistTask(task, tdTasks, task_mappings,
                                                   log, pc) :
                  /\ r.ok \/ pc \in faultPhases
                  /\ tdTasks' = r.td
                  /\ task_mappings' = r.maps
                  /\ log' = r.log
                  /\ results' = IF r.raised
                                THEN RecordTaskError(results, "N->T", task.name)
                                ELSE [results EXCEPT !.tasks_updated = @ + 1]
                  /\ i' = i + 1
                  /\ pc' = pc
    /\ UNCHANGED <<tdProjects, nProjects, nCategories, nTasks, sync_history,
                   faultPhases, other, locals>>

\* Lines 483-486: the results are added to sync_history and returned.
SaveHistory ==
    /\ \/ pc = "history"
       \/ pc = "tasks_n2t" /\ i > Len(notion_tasks)
    /\ sync_history' = Append(sync_history, results)
    /\ log' = Request(log, "firestore", "add_history", "history", None,
                      "history", TRUE)
    /\ pc' = "done"
    /\ UNCHANGED <<world, faultPhases, other, i, locals, results>>

Next ==
    \/ FetchInitial
    \/ SyncProjectToNotion
    \/ RefreshNotionProjects
    \/ SyncProjectToTodoist
    \/ CreateProjectMaps
    \/ FetchTasks
    \/ SyncTaskCompletionStatus
    \/ SyncTaskToNotion
    \/ FetchCompletedTasks
    \/ SyncCompletedTaskToNotion
    \/ StartTasksToTodoist
    \/ SyncTaskToTodoist
    \/ SaveHistory

\* ------------------------------------------------------------------ passes
\* Lines 488-502: the HTTP function sync_projects is called again and runs
\* sync_all from line 369, with fresh locals, on the world the earlier
\* passes left.
StartNextPass ==
    /\ pc = "done"
    /\ Len(sync_history) < MaxPasses
    /\ pc' = "start"
    /\ i' = 1
    /\ todoist_projects' = <<>>
    /\ notion_projects' = <<>>
    /\ category_map' = {}
    /\ notion_projects_refreshed' = <<>>
    /\ project_map' = <<>>
    /\ project_map_reverse' = <<>>
    /\ todoist_tasks' = <<>>
    /\ notion_tasks' = <<>>
    /\ completed_tasks' = <<>>
    /\ results' = NewResults
    /\ UNCHANGED <<world, sync_history, log, faultPhases, other>>

\* The edits the user has made so far.
Edits == Len(SelectSeq(log, LAMBDA e : e.svc = "user"))

\* Between two passes the user renames a project in Todoist.
RenameTodoistProject ==
    /\ pc = "done"
    /\ Edits < MaxEdits
    /\ \E k \in 1..Len(tdProjects), name \in Names :
          /\ name # tdProjects[k].name
          /\ tdProjects' = [tdProjects EXCEPT ![k].name = name]
          /\ log' = Request(log, "user", "rename_project", "edit",
                            tdProjects[k].id, pc, TRUE)
    /\ UNCHANGED <<nProjects, nCategories, tdTasks, nTasks, task_mappings,
                   sync_history, faultPhases, other, pc, i, locals, results>>

NextPasses ==
    \/ Next
    \/ StartNextPass
    \/ RenameTodoistProject

\* ------------------------------------------------------------------ overlap
\* sync_projects takes no lock and the platform may serve two requests at
\* the same time: a second invocation runs create_or_update_notion_task
\* (lines 185-236) for an active Todoist task while this one is in its task
\* phases.  Its three accesses to shared state are separate steps.

\* Lines 190-193: the mapping document of the task is read.
OtherReadMapping ==
    /\ other.pc = "idle"
    /\ pc \in TaskPhases
    /\ \E k \in 1..Len(tdTasks) :
          /\ ~tdTasks[k].is_completed
          /\ other' = [pc |-> "read", task |-> tdTasks[k],
                       page_id |-> MappedPageId(task_mappings, tdTasks[k].id),
                       result_id |-> None]
    /\ UNCHANGED <<world, sync_history, pc, i, locals, results, log, faultPhases>>

\* Lines 195-221: the page is patched or created; a PATCH of a page that is
\* not in the database fails and the call ends with the exception.
OtherSendPage ==
    /\ other.pc = "read"
    /\ LET page_id == other.page_id
           properties == TaskProperties(other.task, FALSE)
           op == IF page_id # None THEN "patch_page" ELSE "create_page"
           arg == [page_id |-> page_id, properties |-> properties]
           ok == page_id = None \/ \E k \in 1..Len(nTasks) : nTasks[k].id = page_id
       IN  /\ log' = Request(log, "notion", op, "task", arg, "tasks_t2n", ok)
           /\ nTasks' = IF ~ok THEN nTasks
                        ELSE IF page_id # None
                        THEN PatchTaskPage(nTasks, page_id, properties)
                        ELSE CreateTaskPage(nTasks, properties)
           /\ other' = [other EXCEPT
                           !.pc = IF ok THEN "sent" ELSE "returned",
                           !.result_id = IF page_id # None THEN page_id
                                         ELSE Len(nTasks) + 1]
    /\ UNCHANGED <<tdProjects, nProjects, nCategories, tdTasks, task_mappings,
                   sync_history, pc, i, locals, results, faultPhases>>

\* Lines 223-236: the mapping of a new page is written.
OtherSaveMapping ==
    /\ other.pc = "sent"
    /\ task_mappings' =
          IF other.page_id = None
          THEN SetDoc(task_mappings, [key |-> other.task.id,
                          todoist_id |-> other.task.id,
                          notion_id |-> other.result_id])
          ELSE task_mappings
    /\ other' = [other EXCEPT !.pc = "returned"]
    /\ UNCHANGED <<tdProjects, nProjects, nCategories, tdTasks, nTasks,
                   sync_history, pc, i, locals, results, log, faultPhases>>

NextOverlap ==
    \/ Next
    \/ OtherReadMapping
    \/ OtherSendPage
    \/ OtherSaveMapping

\* ------------------------------------------------------------------ initial states
\* Todoist projects as GET /projects lists them: ids are the positions, a
\* parent is an earlier project, none is archived.
TdProjectSeqs(n) ==
    UNION {{[j \in 1..k |-> [id |-> j, name |-> f[j].name,
                             parent_id |-> f[j].parent_id,
                             is_archived |-> FALSE]] :
              f \in {g \in [1..k -> [name : Names, parent_id : 0..k]] :
                       \A j \in 1..k : g[j].parent_id < j}} : k \in 0..n}

HasChild(projects) == \E k \in 1..Len(projects) : projects[k].parent_id # None

\* Notion project pages made by hand or by an earlier draft of the sync:
\* none carries a Todoist ID yet.  The Source of a page is a select option,
\* an empty select ("NullSelect"), or the page has no Source property.
Sources == {"Todoist", "Manual", "NoSource", "NullSelect"}

NotionPageSeqs(n, sources, statuses) ==
    UNION {{[j \in 1..k |-> [id |-> j, name |-> f[j].name, source |-> f[j].source,
                             status |-> f[j].status, todoist_id |-> None,
                             todoist_url |-> None, category |-> None]] :
              f \in [1..k -> [name : Names \cup {NoTitle}, source : sources,
                              status : statuses]]} : k \in 0..n}

TdTaskSeqs(n) ==
    UNION {{[j \in 1..k |-> [id |-> j, content |-> f[j].content,
                             is_completed |-> f[j].is_completed]] :
              f \in [1..k -> [content : Names, is_completed : BOOLEAN]]} : k \in 0..n}

NotionTaskSeqs(n, maxTd) ==
    UNION {{[j \in 1..k |-> [id |-> j, name |-> f[j].name, done |-> f[j].done,
                             todoist_id |-> f[j].todoist_id]] :
              f \in [1..k -> [name : Names \cup {NoTitle}, done : BOOLEAN,
                              todoist_id : 0..maxTd]]} : k \in 0..n}

\* task_mappings as earlier passes leave it: one document per Todoist id,
\* its key equal to its todoist_id.
MappingSets(maxTd, maxN) ==
    {{[key |-> t, todoist_id |-> t, notion_id |-> m[t]] : t \in DOMAIN m} :
        m \in UNION {[D -> 1..maxN] : D \in SUBSET (1..maxTd)}}

InitLocals ==
    /\ sync_history = <<>>
    /\ pc = "start"
    /\ i = 1
    /\ todoist_projects = <<>>
    /\ notion_projects = <<>>
    /\ category_map = {}
    /\ notion_projects_refreshed = <<>>
    /\ project_map = <<>>
    /\ project_map_reverse = <<>>
    /\ todoist_tasks = <<>>
    /\ notion_tasks = <<>>
    /\ completed_tasks = <<>>
    /\ results = NewResults
    /\ log = <<>>
    /\ other = NoCall

\* An active task and a completed task, each mapped to a page not yet Done.
SmallTaskWorld ==
    /\ tdTasks = <<[id |-> 1, content |-> "A", is_completed |-> FALSE],
                   [id |-> 2, content |-> "B", is_completed |-> TRUE]>>
    /\ nTasks = <<[id |-> 1, name |-> "A", done |-> FALSE, todoist_id |-> 1],
                  [id |-> 2, name |-> "B", done |-> FALSE, todoist_id |-> 2]>>
    /\ task_mappings = {[key |-> 1, todoist_id |-> 1, notion_id |-> 1],
                        [key |-> 2, todoist_id |-> 2, notion_id |-> 2]}

\* One Todoist project and one page made in Notion.
SmallProjectWorld ==
    /\ tdProjects = <<[id |-> 1, name |-> "A", parent_id |-> None,
                       is_archived |-> FALSE]>>
    /\ nProjects = <<[id |-> 1, name |-> "B", source |-> "Manual",
                      status |-> "In Progress", todoist_id |-> None,
                      todoist_url |-> None, category |-> None]>>
    /\ nCategories = {}

\* The project side varies, and the requests of the project phases may fail:
\* flat projects against every kind of page, or a hierarchy against the
\* categories.
Init ==
    /\ \/ /\ tdProjects \in {p \in TdProjectSeqs(MaxTdProjects) : ~HasChild(p)}
          /\ nProjects \in NotionPageSeqs(MaxNotionPages, Sources,
                                          {"In Progress", "Done"})
          /\ nCategories = {}
       \/ /\ tdProjects \in {p \in TdProjectSeqs(MaxTdProjects) : HasChild(p)}
          /\ nProjects \in NotionPageSeqs(MaxNotionPages, {"Todoist"},
                                          {"In Progress"})
          /\ nCategories \in SUBSET Names
    /\ SmallTaskWorld
    /\ faultPhases = ProjectPhases
    /\ InitLocals

Spec == Init /\ [][Next]_vars

\* The task side varies, and the requests of the task phases may fail.
InitTasks ==
    /\ SmallProjectWorld
    /\ tdTasks \in TdTaskSeqs(MaxTdTasks)
    /\ nTasks \in NotionTaskSeqs(MaxNotionTasks, MaxTdTasks)
    /\ task_mappings \in MappingSets(MaxTdTasks, MaxNotionTasks)
    /\ faultPhases = TaskPhases
    /\ InitLocals

SpecTasks == InitTasks /\ [][Next]_vars

\* A small world in which every request of the pass may fail.
InitAll ==
    /\ tdProjects = <<[id |-> 1, name |-> "A", parent_id |-> None,
                       is_archived |-> FALSE],
                      [id |-> 2, name |-> "B", parent_id |-> 1,
                       is_archived |-> FALSE]>>
    /\ nProjects \in NotionPageSeqs(MaxNotionPages, {"Manual"}, {"Done"})
    /\ nCategories = {"A"}
    /\ SmallTaskWorld
    /\ faultPhases = ProjectPhases \cup TaskPhases
    /\ InitLocals

SpecAll == InitAll /\ [][Next]_vars

\* Several passes in which every request succeeds: the project side varies
\* against a fixed task side, or the task side against a fixed project side.
InitPasses ==
    /\ \/ /\ tdProjects \in {p \in TdProjectSeqs(MaxTdProjects) : ~HasChild(p)}
          /\ nProjects \in NotionPageSeqs(MaxNotionPages, {"Manual"},
                                          {"In Progress", "Done"})
          /\ nCategories = {}
          /\ SmallTaskWorld
       \/ /\ SmallProjectWorld
          /\ tdTasks \in TdTaskSeqs(MaxTdTasks)
          /\ nTasks \in NotionTaskSeqs(MaxNotionTasks, MaxTdTasks)
          /\ task_mappings \in MappingSets(MaxTdTasks, MaxNotionTasks)
    /\ faultPhases = {}
    /\ InitLocals

SpecPasses == InitPasses /\ [][NextPasses]_vars

\* Two overlapping invocations: the task side varies, every request that
\* can succeed does.
InitOverlap ==
    /\ SmallProjectWorld
    /\ tdTasks \in TdTaskSeqs(MaxTdTasks)
    /\ nTasks \in NotionTaskSeqs(MaxNotionTasks, MaxTdTasks)
    /\ task_mappings \in MappingSets(MaxTdTasks, MaxNotionTasks)
    /\ faultPhases = {}
    /\ InitLocals

SpecOverlap == InitOverlap /\ [][NextOverlap]_vars

\* ------------------------------------------------------------------ properties
\* The phases of sync_all in program order.
Rank(phase) ==
    CASE phase = "start" -> 1
      [] phase = "projects_t2n" -> 2
      [] phase = "projects_n2t" -> 3
      [] phase = "maps" -> 4
      [] phase = "fetch_tasks" -> 5
      [] phase = "status" -> 6
      [] phase = "tasks_t2n" -> 7
      [] phase = "completed_t2n" -> 8
      [] phase = "tasks_n2t" -> 9
      [] phase = "history" -> 10
      [] OTHER -> 11

\* The requests of the Todoist -> Notion project loop, in order.
T2NRequests == SelectSeq(log, LAMBDA e : e.phase = "projects_t2n")

AllOk == \A k \in 1..Len(log) : log[k].ok

\* Both initial queries (lines 381-382) succeeded.
FetchSucceeded == Len(log) >= 3 /\ log[1].ok /\ log[2].ok

\* The Todoist -> Notion project loop has run to its end.
T2NFinished ==
    /\ FetchSucceeded
    /\ pc # "start"
    /\ pc = "projects_t2n" => i > Len(todoist_projects)

NameInSnapshot(name) ==
    \E k \in 1..Len(notion_projects) : notion_projects[k].name = name

\* C1: in the Todoist -> Notion project phase a project whose name is the
\* Name title of a page of the snapshot fetched at the start gets a PATCH of
\* that page and never a create-page request; a create-page request is issued
\* only for a project with no name match in the snapshot.
C1_NoCreateForMatchedName ==
    \A k \in 1..Len(T2NRequests) :
        LET e == T2NRequests[k]
        IN  /\ NameInSnapshot(e.arg.properties.name) => e.op = "patch_page"
            /\ e.op = "create_page" => ~NameInSnapshot(e.arg.properties.name)

\* C1 witness: a pass that patched a matched project and created another.
W1_PatchedAndCreated ==
    /\ \E k \in 1..Len(T2NRequests) :
          T2NRequests[k].op = "patch_page" /\ T2NRequests[k].ok
    /\ \E k \in 1..Len(T2NRequests) :
          T2NRequests[k].op = "create_page" /\ T2NRequests[k].ok

\* The mapped pairs that exist on both sides: indexes into tdTasks and nTasks.
MappedPairs ==
    {p \in (1..Len(tdTasks)) \X (1..Len(nTasks)) :
        \E d \in task_mappings : /\ d.todoist_id = tdTasks[p[1]].id
                                 /\ d.notion_id = nTasks[p[2]].id}

\* A pass that ran to its end with every request successful.
CleanPassDone == pc = "done" /\ ~results.error /\ AllOk

\* C2: after a pass whose requests all succeeded every mapped task has the
\* same name on both sides (Todoist content = Notion Name).
C2_MappedNamesAgree ==
    CleanPassDone =>
        \A p \in MappedPairs : tdTasks[p[1]].content = nTasks[p[2]].name

\* C3: after a pass whose requests all succeeded every mapped task that
\* exists on both sides has the same completion state on both sides.
C3_MappedCompletionAgrees ==
    CleanPassDone =>
        \A p \in MappedPairs : tdTasks[p[1]].is_completed = nTasks[p[2]].done

ZeroCounts(r) ==
    /\ r.projects_created = 0 /\ r.projects_updated = 0
    /\ r.tasks_created = 0 /\ r.tasks_updated = 0
    /\ r.projects_errors = <<>> /\ r.tasks_errors = <<>>

\* C4: when the fetch of the Todoist projects fails, no request goes to
\* Notion in that invocation and the result reports zero projects and tasks
\* created or updated and empty error lists.
C4_TodoistFetchFailure ==
    (Len(log) >= 1 /\ ~log[1].ok) =>
        /\ \A k \in 1..Len(log) : log[k].svc # "notion"
        /\ ZeroCounts(results)
        /\ \A k \in 1..Len(sync_history) : ZeroCounts(sync_history[k])

\* C4 witness: the pass ended after the failed fetch.
W4_FetchFailedAndDone ==
    pc = "done" /\ Len(log) >= 1 /\ ~log[1].ok /\ Len(sync_history) = 1

\* The T->N entries of results.projects.errors.
T2NErrors == SelectSeq(results.projects_errors, LAMBDA x : x.dir = "T->N")

T2NFailed == SelectSeq(T2NRequests, LAMBDA e : ~e.ok)

T2NSucceeded == SelectSeq(T2NRequests, LAMBDA e : e.ok)

\* C5: in the Todoist -> Notion project phase every project whose request
\* fails adds exactly one error entry naming it and is counted neither as
\* created nor as updated, and the loop goes on to the remaining projects.
C5_FailedProjectRecordedOnce ==
    /\ Len(T2NErrors) = Len(T2NFailed)
    /\ \A k \in 1..Len(T2NFailed) :
          T2NErrors[k].name = T2NFailed[k].arg.properties.name
    /\ pc = "projects_t2n" =>
          /\ results.projects_created + results.projects_updated
                = Len(T2NSucceeded)
          /\ Len(T2NRequests) = i - 1
    /\ T2NFinished =>
          /\ Len(T2NRequests) = Len(todoist_projects)
          /\ \A k \in 1..Len(T2NRequests) :
                T2NRequests[k].arg.properties.todoist_id = todoist_projects[k].id

\* C5 witness: the first project failed and the second was still processed.
W5_FailedThenProcessed ==
    /\ T2NFinished
    /\ Len(T2NRequests) = 2
    /\ ~T2NRequests[1].ok
    /\ T2NRequests[2].ok

\* C6: with an empty Notion projects database and every request successful
\* the phase issues exactly one create-page request per Todoist project, in
\* the order Todoist returned them, and reports as many projects created.
C6_EmptyNotionCreatesAll ==
    (T2NFinished /\ notion_projects = <<>> /\ AllOk) =>
        /\ Len(T2NRequests) = Len(todoist_projects)
        /\ \A k \in 1..Len(T2NRequests) :
              /\ T2NRequests[k].op = "create_page"
              /\ T2NRequests[k].arg.properties.todoist_id = todoist_projects[k].id
        /\ results.projects_created = Len(todoist_projects)

\* C6 witness: a finished pass over two projects and an empty database.
W6_TwoCreated ==
    /\ pc = "done"
    /\ T2NFinished /\ notion_projects = <<>> /\ AllOk
    /\ Len(todoist_projects) = 2

\* C7: the payload built for a Todoist project carries a Category exactly
\* when the project has a parent_id, and the Category is then the page of
\* the parent project.
C7_CategoryIffParent ==
    \A k \in 1..Len(T2NRequests) :
        LET props == T2NRequests[k].arg.properties
            pk == FirstIndex(todoist_projects, LAMBDA p : p.id = props.todoist_id)
            parent_id == todoist_projects[pk].parent_id
            parent == FirstIndex(todoist_projects, LAMBDA p : p.id = parent_id)
        IN  /\ props.has_category <=> parent_id # None
            /\ props.has_category =>
                  props.category = CategoryId(todoist_projects[parent].name)

Count(s, P(_)) == Len(SelectSeq(s, P))

PhaseContent(e) ==
    CASE e.phase = "start" -> e.kind = "read"
      [] e.phase = "projects_t2n" -> e.svc = "notion" /\ e.kind = "project"
      [] e.phase = "projects_n2t" ->
            \/ e.svc = "notion" /\ e.kind = "read"
            \/ e.svc = "todoist" /\ e.kind = "project"
      [] e.phase = "maps" -> e.svc = "notion" /\ e.kind = "read"
      [] e.phase = "fetch_tasks" -> e.kind = "read"
      [] e.phase = "status" ->
            \/ e.op = "get_completed"
            \/ e.svc = "notion" /\ e.kind = "task"
      [] e.phase = "tasks_t2n" -> e.svc = "notion" /\ e.kind = "task"
      [] e.phase = "completed_t2n" ->
            \/ e.op = "get_completed"
            \/ e.svc = "notion" /\ e.kind = "task"
      [] e.phase = "tasks_n2t" -> e.svc = "todoist"
      [] e.phase = "history" -> e.op = "add_history"
      [] OTHER -> FALSE

C10_NoDuplicateForExistingTask ==
    [][(/\ pc = "tasks_n2t"
        /\ i <= Len(notion_tasks)
        /\ notion_tasks[i].name # NoTitle
        /\ KnownTodoistId(task_mappings, notion_tasks[i]) # None
        /\ TaskIndex(tdTasks, KnownTodoistId(task_mappings, notion_tasks[i])) # 0)
          => Len(tdTasks') = Len(tdTasks)]_vars

\* The page the Notion -> Todoist project loop is at.
AtNotionProject == pc = "projects_n2t" /\ i <= Len(notion_projects_refreshed)

\* The page the Notion -> Todoist task loop is at.
AtNotionTask == pc = "tasks_n2t" /\ i <= Len(notion_tasks)

\* One item of a Notion -> Todoist loop went through its try block: it is
\* counted as updated, or it adds one entry to the errors list.
ProjectItemHandled ==
    \/ /\ results'.projects_updated = results.projects_updated + 1
       /\ results'.projects_errors = results.projects_errors
    \/ /\ results'.projects_updated = results.projects_updated
       /\ Len(results'.projects_errors) = Len(results.projects_errors) + 1

TaskItemHandled ==
    \/ /\ results'.tasks_updated = results.tasks_updated + 1
       /\ results'.tasks_errors = results.tasks_errors
    \/ /\ results'.tasks_updated = results.tasks_updated
       /\ Len(results'.tasks_errors) = Len(results.tasks_errors) + 1

\* C12: in both Notion -> Todoist loops an item that is handed to
\* create_or_update_todoist_project or create_or_update_todoist_task is
\* counted or recorded as exactly one error entry, and the loop goes on to
\* the next item: no single item aborts the pass.
C12_ItemFailureNeverAborts ==
    [][/\ (/\ AtNotionProject
           /\ ~SourceRaises(notion_projects_refreshed[i])
           /\ NotFromTodoist(notion_projects_refreshed[i]))
          => (ProjectItemHandled /\ pc' = pc /\ i' = i + 1 /\ ~results'.error)
       /\ AtNotionTask
          => (TaskItemHandled /\ pc' = pc /\ i' = i + 1 /\ ~results'.error)]_vars

\* The invocations of sync_all started so far: each begins with one fetch
\* of the Todoist projects.
Invocations ==
    Len(SelectSeq(log, LAMBDA e : e.op = "get_projects" /\ e.phase = "start"))

\* C13: every invocation of sync_all appends exactly one record to
\* sync_history, equal to the results it returns, whichever vendor request
\* fails; an aborted pass's record carries the error field, and sync_all
\* never stops short of the return (it does not raise).
C13_OneHistoryRecordPerInvocation ==
    /\ pc = "start" => Len(sync_history) = Invocations
    /\ pc \notin {"start", "done"} => Len(sync_history) = Invocations - 1
    /\ pc = "done" =>
          /\ Invocations >= 1
          /\ Len(sync_history) = Invocations
          /\ sync_history[Len(sync_history)] = results
    /\ pc = "history" => results.error
    /\ pc # "done" => ENABLED Next

\* C13 witness: a pass aborted by a failed request after the project phases,
\* with its record saved.
W13_AbortedPassRecorded ==
    /\ pc = "done"
    /\ results.error
    /\ \E k \in 1..Len(log) : log[k].phase = "fetch_tasks" /\ ~log[k].ok
    /\ Len(sync_history) = 1
    /\ sync_history[1].error

\* C14: in the Notion -> Todoist project phase a page whose Source is
\* Todoist causes no Todoist request, and every page with no Source or with
\* another Source is handed to create_or_update_todoist_project.
C14_SourceFilter ==
    [][AtNotionProject =>
         LET page == notion_projects_refreshed[i]
         IN  /\ page.source = "Todoist" =>
                   /\ log' = log
                   /\ tdProjects' = tdProjects
                   /\ results' = results
             /\ (page.source # "Todoist" /\ page.name # NoTitle) =>
                   ProjectItemHandled]_vars

\* The Todoist task the Todoist -> Notion loops are at, if any.
AtTodoistTask ==
    \/ pc = "tasks_t2n" /\ i <= Len(todoist_tasks)
    \/ pc = "completed_t2n" /\ i <= Len(completed_tasks)

CurrentTodoistTask ==
    IF pc = "tasks_t2n" THEN todoist_tasks[i] ELSE completed_tasks[i]

\* Successful create-page requests for task pages, by position in log.
TaskPageCreations ==
    {k \in 1..Len(log) :
        log[k].op = "create_page" /\ log[k].kind = "task" /\ log[k].ok}

\* C11: create_or_update_notion_task patches the mapped page when a
\* task_mappings document exists for the Todoist task id, and otherwise
\* creates a page and records the mapping from that id to the new page;
\* hence over sequential passes whose requests succeed at most one Notion
\* page is ever created for a given Todoist task id.
C11_OnePagePerTodoistTask ==
    /\ [](\A j, k \in TaskPageCreations :
             log[j].arg.properties.todoist_id = log[k].arg.properties.todoist_id
                => j = k)
    /\ [][AtTodoistTask =>
            LET id == CurrentTodoistTask.id
                docs == {d \in task_mappings : d.key = id}
                e == log'[Len(log')]
            IN  /\ Len(log') = Len(log) + 1
                /\ e.arg.properties.todoist_id = id
                /\ docs # {} =>
                      /\ e.op = "patch_page"
                      /\ \A d \in docs : e.arg.page_id = d.notion_id
                      /\ Len(nTasks') = Len(nTasks)
                /\ docs = {} =>
                      /\ e.op = "create_page"
                      /\ e.ok =>
                           /\ Len(nTasks') = Len(nTasks) + 1
                           /\ \E d \in task_mappings' :
                                 /\ d.key = id
                                 /\ d.todoist_id = id
                                 /\ d.notion_id = nTasks'[Len(nTasks')].id]_vars

\* C11 witness: a page was created for a task in one pass and the same task
\* was patched, not created again, in the next.
W11_CreatedThenPatched ==
    \E j \in TaskPageCreations :
        \E k \in (j + 1)..Len(log) :
            /\ log[k].op = "patch_page" /\ log[k].kind = "task" /\ log[k].ok
            /\ log[k].phase = log[j].phase
            /\ log[k].arg.properties.todoist_id = log[j].arg.properties.todoist_id

CleanRecord(r) ==
    ~r.error /\ r.projects_errors = <<>> /\ r.tasks_errors = <<>>

CreateOps == {"create_page", "create_project", "create_task"}

MappingPairs(mappings) == {<<d.todoist_id, d.notion_id>> : d \in mappings}

\* A pass that follows a complete, successful pass with no edit in between.
InPassAfterCleanPass ==
    /\ Len(sync_history) >= 1
    /\ CleanRecord(sync_history[Len(sync_history)])
    /\ AllOk
    /\ Edits = 0
    /\ pc # "done"

\* C15: when a complete pass succeeded and nothing was edited since, the
\* next pass issues no create request to either service and leaves the
\* (todoist_id, notion_id) pairs of task_mappings as they were.
C15_SecondPassCreatesNothing ==
    [][InPassAfterCleanPass =>
         /\ \A k \in (Len(log) + 1)..Len(log') : log'[k].op \notin CreateOps
         /\ MappingPairs(task_mappings') = MappingPairs(task_mappings)
         /\ Len(nProjects') = Len(nProjects)
         /\ Len(nTasks') = Len(nTasks)
         /\ Len(tdProjects') = Len(tdProjects)
         /\ Len(tdTasks') = Len(tdTasks)]_vars

\* C16: task_mappings is a one-to-one relation between Todoist task ids and
\* Notion page ids: each document's key is its todoist_id and no two
\* documents carry the same notion_id.
C16_MappingsOneToOne ==
    /\ \A d \in task_mappings : d.key = d.todoist_id
    /\ \A d, e \in task_mappings : d.notion_id = e.notion_id => d = e

\* C18: no two Notion project pages carry the same Todoist ID, whatever
\* passes and edits (a project renamed in Todoist) came before.
C18_ProjectIdOnOnePage ==
    \A j, k \in 1..Len(nProjects) :
        (j # k /\ nProjects[j].todoist_id # None)
            => nProjects[j].todoist_id # nProjects[k].todoist_id

\* C17: when two invocations overlap, at most one Notion page is created
\* for any Todoist task id: the mapping read, the create-page request and
\* the mapping write of one invocation do not interleave with those of the
\* other so that both create a page.
C17_OverlapCreatesOnePage ==
    \A k \in TaskPageCreations :
        Cardinality({j \in TaskPageCreations :
                        log[j].arg.properties.todoist_id
                           = log[k].arg.properties.todoist_id}) = 1

====
